---- MODULE Spec2Model ----
(***************************************************************************)
(* Model of the JSON-LD reader: JsonLDReader / Nothing                     *)
(* (src/src/reader/JsonLDReader.ts, lines 1-237) and the key resolver      *)
(* utils/read (same file, lines 239-455).                                  *)
(*                                                                         *)
(* JavaScript values are tagged records with one layout.  A string is a    *)
(* sequence of tokens: the separators "#" and "/", the digits and "-" are  *)
(* tokens of their own, every other token is a run of text containing none *)
(* of them.  An object is the sequence of its entries in insertion order.  *)
(***************************************************************************)
EXTENDS Integers, Sequences, FiniteSets, TLC

\* ------------------------------------------------------------------ bounds
MaxLen == 3
MaxNum == 2

\* ------------------------------------------------------- JavaScript values
Undef == [t |-> "undefined", s |-> <<>>, n |-> 0, b |-> FALSE, a |-> <<>>, o |-> <<>>]
Null == [t |-> "null", s |-> <<>>, n |-> 0, b |-> FALSE, a |-> <<>>, o |-> <<>>]
Str(x) == [t |-> "string", s |-> x, n |-> 0, b |-> FALSE, a |-> <<>>, o |-> <<>>]
Num(x) == [t |-> "number", s |-> <<>>, n |-> x, b |-> FALSE, a |-> <<>>, o |-> <<>>]
NaN == [t |-> "nan", s |-> <<>>, n |-> 0, b |-> FALSE, a |-> <<>>, o |-> <<>>]
Bool(x) == [t |-> "boolean", s |-> <<>>, n |-> 0, b |-> x, a |-> <<>>, o |-> <<>>]
Arr(x) == [t |-> "array", s |-> <<>>, n |-> 0, b |-> FALSE, a |-> x, o |-> <<>>]
Obj(x) == [t |-> "object", s |-> <<>>, n |-> 0, b |-> FALSE, a |-> <<>>, o |-> x]
Entry(key, val) == [k |-> key, v |-> val]

\* typeof v
TypeOf(v) == IF v.t \in {"null", "array", "object"} THEN "object"
             ELSE IF v.t = "nan" THEN "number" ELSE v.t
IsArray(v) == v.t = "array"
IsNullish(v) == v.t \in {"null", "undefined"}
\* a ?? b
Coalesce(a, b) == IF IsNullish(a) THEN b ELSE a

\* v[key] for a string key, v neither null nor undefined
Prop(v, key) ==
  IF v.t = "object"
  THEN LET S == {i \in 1..Len(v.o) : v.o[i].k = key}
       IN IF S = {} THEN Undef ELSE v.o[CHOOSE i \in S : TRUE].v
  ELSE Undef
\* v[i] for an integer i, v an array
At(v, i) == IF i >= 0 /\ i < Len(v.a) THEN v.a[i + 1] ELSE Undef

\* ------------------------------------------------------------------ errors
NoError == [name |-> "undefined", message |-> <<>>]
Error(msg) == [name |-> "Error", message |-> msg]
TypeError == [name |-> "TypeError", message |-> <<>>]
\* error ?? fallback
ErrorOr(error, fallback) == IF error = NoError THEN fallback ELSE error

Digits == <<"0", "1", "2", "3", "4", "5", "6", "7", "8", "9">>
RECURSIVE NatStr(_)
NatStr(n) == IF n < 10 THEN <<Digits[n + 1]>>
             ELSE NatStr(n \div 10) \o <<Digits[(n % 10) + 1]>>
\* String(n) / `${n}` for an integer n
IntStr(n) == IF n < 0 THEN <<"-">> \o NatStr(-n) ELSE NatStr(n)

\* ----------------------------------------------------------------- strings
RECURSIVE Split(_, _)
\* s.split(sep)
Split(s, sep) ==
  LET S == {i \in 1..Len(s) : s[i] = sep}
  IN IF S = {} THEN <<s>>
     ELSE LET i == CHOOSE j \in S : \A m \in S : j <= m
          IN <<SubSeq(s, 1, i - 1)>> \o Split(SubSeq(s, i + 1, Len(s)), sep)
\* k.split('#')[1] === key
HashSegmentIs(k, key) ==
  LET sp == Split(k, "#") IN Len(sp) >= 2 /\ sp[2] = key
\* split = k.split('/'); split[split.length - 1] === key
LastSlashSegmentIs(k, key) ==
  LET sp == Split(k, "/") IN sp[Len(sp)] = key
\* the first of a set of entry indices, 0 (for undefined) if there is none
FirstOf(S) == IF S = {} THEN 0 ELSE CHOOSE j \in S : \A m \in S : j <= m
\* Object.keys(scope).find((k) => k.split('#')[1] === key), as an entry index
FindHash(scope, key) ==
  FirstOf({i \in 1..Len(scope.o) : HashSegmentIs(scope.o[i].k, key)})
\* Object.keys(scope).find((k) => last '/' segment of k === key), as an entry index
FindSlash(scope, key) ==
  FirstOf({i \in 1..Len(scope.o) : LastSlashSegmentIs(scope.o[i].k, key)})

\* ----------------------------------------------------------------- readers
\* new JsonLDReader(value)
JsonLDReader(value) ==
  [kind |-> "Just", value |-> value,
   length |-> IF IsArray(value) THEN Len(value.a) ELSE 1, error |-> NoError]
of(value) == JsonLDReader(value)
\* new Nothing(error): super() leaves value undefined
Nothing(error) ==
  [kind |-> "Nothing", value |-> Undef, length |-> 1, error |-> error]
\* an exception leaving a function that returns a Reader
Throw(error) ==
  [kind |-> "Throw", value |-> Undef, length |-> 0, error |-> error]
\* outcome of a terminal call
Return(value) == [kind |-> "Return", value |-> value, error |-> NoError]
Raise(error) == [kind |-> "Throw", value |-> Undef, error |-> error]

\* --------------------------------------------------------- the key resolver
RECURSIVE extractType(_)
\* extractType: Return(string) or the TypeError of reading a property of
\* null / calling split on a value that has none
extractType(value) ==
  IF IsArray(value) THEN extractType(At(value, 0))
  ELSE IF TypeOf(value) = "object"
  THEN IF value.t = "null" THEN Raise(TypeError)
       ELSE Return(Prop(value, <<"@value">>))
  ELSE IF value.t # "string" THEN Raise(TypeError)
  ELSE LET hashSplit == Split(value.s, "#")
           slashSplit == Split(value.s, "/")
       IN IF Len(hashSplit) = 2 THEN Return(Str(hashSplit[2]))
          ELSE IF Len(slashSplit) = 1 THEN Return(value)
          ELSE Return(Str(slashSplit[Len(slashSplit)]))

\* [value, founded] of readType / readId / readValue, or the exception
Founded(value) == [thrown |-> FALSE, value |-> value, founded |-> TRUE]
NotFounded == [thrown |-> FALSE, value |-> Str(<<>>), founded |-> FALSE]
Thrown == [thrown |-> TRUE, value |-> Undef, founded |-> FALSE]
Extracted(r) == IF r.kind = "Throw" THEN Thrown ELSE Founded(r.value)

readType(scope) ==
  LET value == Prop(scope, <<"@type">>)
      key == FindHash(scope, <<"type">>)
  IN IF value.t # "undefined" THEN Extracted(extractType(value))
     ELSE IF key # 0 THEN Extracted(extractType(scope.o[key].v))
     ELSE NotFounded

readId(scope) ==
  LET value == Prop(scope, <<"@id">>)
      key == FindHash(scope, <<"id">>)
  IN IF value.t # "undefined" THEN Founded(value)
     ELSE IF key # 0 THEN Founded(scope.o[key].v)
     ELSE NotFounded

readValue(scope) ==
  LET value == Prop(scope, <<"@value">>)
      key == FindHash(scope, <<"value">>)
  IN IF value.t # "undefined" THEN Founded(value)
     ELSE IF key # 0 THEN Founded(scope.o[key].v)
     ELSE NotFounded

\* readAsPreDefinedKey recognising only the '@' spellings
readAsPreDefinedKey_CanonicalOnly(scope, key) ==
  LET type == IF key = <<"@type">> THEN readType(scope) ELSE NotFounded
      id == IF key = <<"@id">> THEN readId(scope) ELSE NotFounded
      value == IF key = <<"@value">> THEN readValue(scope) ELSE NotFounded
  IN IF type.thrown \/ type.founded THEN type
     ELSE IF id.founded THEN id
     ELSE IF value.founded THEN value
     ELSE NotFounded

\* scope is an object (not null) here; see readAsObject
readAsPreDefinedKey(scope, key) ==
  LET type == IF key \in {<<"type">>, <<"@type">>} THEN readType(scope) ELSE NotFounded
      id == IF key \in {<<"id">>, <<"@id">>} THEN readId(scope) ELSE NotFounded
      value == IF key \in {<<"value">>, <<"@value">>} THEN readValue(scope) ELSE NotFounded
  IN IF type.thrown \/ type.founded THEN type
     ELSE IF id.founded THEN id
     ELSE IF value.founded THEN value
     ELSE NotFounded

\* index of the entry getFullKey returns, 0 for undefined
getFullKey(scope, key) ==
  LET fullKey == FindHash(scope, key)
  IN IF fullKey # 0 THEN fullKey
     ELSE FindSlash(scope, key)

\* scope has typeof 'object' and is not an array: an object or null.
\* On null, scope['@type'] and Object.keys(scope) raise a TypeError.
readAsObject(scope, key) ==
  IF scope.t = "null" THEN Throw(TypeError)
  ELSE LET pre == readAsPreDefinedKey(scope, key)
           fullKey == getFullKey(scope, key)
       IN IF pre.thrown THEN Throw(TypeError)
          ELSE IF pre.founded THEN of(pre.value)
          ELSE IF fullKey = 0 THEN Nothing(Error(<<"Not found key: ">> \o key))
          ELSE IF key = <<"type">>
          THEN LET r == extractType(scope.o[fullKey].v)
               IN IF r.kind = "Throw" THEN Throw(r.error) ELSE of(r.value)
          ELSE of(scope.o[fullKey].v)

\* readAsArray without the test for a missing element
readAsArray_NoCheck(scope, index) == of(At(scope, index))
readAsArray(scope, index) ==
  LET value == At(scope, index)
  IN IF value.t # "undefined" THEN of(value)
     ELSE Nothing(Error(<<"Not found index: ">> \o IntStr(index)))

\* the selector of a read: a string key, an integer index, or neither
Key(k) == [sel |-> "key", key |-> k, index |-> 0, error |-> NoError, value |-> Undef]
Index(i) == [sel |-> "index", key |-> <<>>, index |-> i, error |-> NoError, value |-> Undef]
\* the argument of a terminal call: an optional error, a default value, or none
ErrorArg(e) == [sel |-> "error", key |-> <<>>, index |-> 0, error |-> e, value |-> Undef]
DefaultArg(d) == [sel |-> "default", key |-> <<>>, index |-> 0, error |-> NoError, value |-> d]
NoArg == [sel |-> "none", key |-> <<>>, index |-> 0, error |-> NoError, value |-> Undef]

RECURSIVE read(_, _)
\* read({ jsonld, index, key }); m.sel says which of index and key is defined
read(jsonld, m) ==
  IF IsArray(jsonld)
  THEN IF m.sel = "index" THEN readAsArray(jsonld, m.index)
       ELSE IF Len(jsonld.a) > 2 THEN Nothing(Error(<<"Not an object">>))
       ELSE read(At(jsonld, 0), m)
  ELSE IF m.sel = "index" THEN Nothing(Error(<<"Not an array">>))
  ELSE IF TypeOf(jsonld) # "object" THEN Nothing(Error(<<"Not an object">>))
  ELSE IF m.sel # "key" THEN Nothing(Error(<<"key or index is required">>))
  ELSE readAsObject(jsonld, m.key)

\* ------------------------------------------------------------ conversions
IsDigit(tok) == \E i \in 1..10 : Digits[i] = tok
DigitVal(tok) == (CHOOSE i \in 1..10 : Digits[i] = tok) - 1
RECURSIVE NatVal(_)
NatVal(s) == IF Len(s) = 0 THEN 0
             ELSE 10 * NatVal(SubSeq(s, 1, Len(s) - 1)) + DigitVal(s[Len(s)])
\* Number(s) for a string s
ParseNumber(s) ==
  IF Len(s) = 0 THEN Num(0)
  ELSE IF \A i \in 1..Len(s) : IsDigit(s[i]) THEN Num(NatVal(s))
  ELSE IF Len(s) >= 2 /\ s[1] = "-" /\ \A i \in 2..Len(s) : IsDigit(s[i])
  THEN Num(-NatVal(Tail(s)))
  ELSE NaN
RECURSIVE ToNumber(_)
\* Number(v); an array converts through its join(','), an object through
\* '[object Object]'
ToNumber(v) ==
  CASE v.t = "number" -> v
    [] v.t = "nan" -> NaN
    [] v.t = "string" -> ParseNumber(v.s)
    [] v.t = "boolean" -> Num(IF v.b THEN 1 ELSE 0)
    [] v.t = "null" -> Num(0)
    [] v.t = "array" ->
         IF Len(v.a) = 0 THEN Num(0)
         ELSE IF Len(v.a) > 1 THEN NaN
         ELSE IF IsNullish(v.a[1]) THEN Num(0)
         ELSE IF v.a[1].t = "boolean" THEN NaN
         ELSE ToNumber(v.a[1])
    [] OTHER -> NaN
\* String(v) for a primitive v
StringOf(v) ==
  CASE v.t = "string" -> v.s
    [] v.t = "number" -> IntStr(v.n)
    [] v.t = "nan" -> <<"NaN">>
    [] v.t = "boolean" -> IF v.b THEN <<"true">> ELSE <<"false">>
    [] OTHER -> <<v.t>>
Primitive == {"string", "number", "bigint", "boolean"}

\* ------------------------------------------------------ JsonLDReader methods
\* (this.value)?.length
LengthOf(v) ==
  IF IsNullish(v) THEN Undef
  ELSE IF IsArray(v) THEN Num(Len(v.a))
  ELSE Prop(v, <<"length">>)
\* this.value[0]
First(v) == IF IsArray(v) THEN At(v, 0) ELSE Prop(v, <<"0">>)
\* scope?.[key]
OptProp(scope, key) == IF IsNullish(scope) THEN Undef ELSE Prop(scope, key)

\* private getValue(): the unwrapped value, or the TypeError of reading a
\* property of null / undefined
getValue(this) ==
  IF TypeOf(this.value) \in Primitive THEN Return(this.value)
  ELSE IF LengthOf(this.value) = Num(1)
  THEN LET scope == First(this.value)
       IN Return(Coalesce(OptProp(scope, <<"@value">>),
                          Coalesce(OptProp(scope, <<"@id">>), scope)))
  ELSE IF IsNullish(this.value) THEN Raise(TypeError)
  ELSE Return(Coalesce(Prop(this.value, <<"@value">>),
                       Coalesce(Prop(this.value, <<"@id">>), this.value)))

\* try { body } catch { return defaultValue }
OrElse(body, defaultValue) ==
  IF body.kind = "Throw" THEN Return(defaultValue) ELSE body

\* read refusing every sequence when a string key is given
JsonLDReader_read_NoUnwrap(this, m) ==
  IF IsArray(this.value) /\ m.sel # "index"
  THEN Nothing(Error(<<"Not an object">>))
  ELSE read(this.value, m)
JsonLDReader_read(this, m) == read(this.value, m)
JsonLDReader_get(this) == getValue(this)
JsonLDReader_getOrThrow(this, error) == getValue(this)
JsonLDReader_getOrElse(this, defaultValue) == getValue(this)
\* stringOrThrow accepting strings only
JsonLDReader_stringOrThrow_StringsOnly(this, error) ==
  LET value == getValue(this)
  IN IF value.kind = "Throw" THEN value
     ELSE IF TypeOf(value.value) = "string" THEN Return(value.value)
     ELSE Raise(ErrorOr(error, Error(<<"Not a string">>)))
JsonLDReader_stringOrThrow(this, error) ==
  LET value == getValue(this)
  IN IF value.kind = "Throw" THEN value
     ELSE IF TypeOf(value.value) \in Primitive
     THEN Return(Str(StringOf(value.value)))
     ELSE Raise(ErrorOr(error, Error(<<"Not a string">>)))
JsonLDReader_stringOrElse(this, defaultValue) ==
  OrElse(JsonLDReader_stringOrThrow(this, NoError), defaultValue)
\* numberOrThrow parsing the string form of the value
JsonLDReader_numberOrThrow_ViaString(this, error) ==
  LET value == getValue(this)
      parsed == ParseNumber(StringOf(value.value))
  IN IF value.kind = "Throw" THEN value
     ELSE IF TypeOf(value.value) = "number" THEN Return(value.value)
     ELSE IF parsed = NaN THEN Raise(ErrorOr(error, Error(<<"Not a number">>)))
     ELSE Return(parsed)
JsonLDReader_numberOrThrow(this, error) ==
  LET value == getValue(this)
  IN IF value.kind = "Throw" THEN value
     ELSE IF TypeOf(value.value) = "number" THEN Return(value.value)
     ELSE IF ToNumber(value.value) = NaN
     THEN Raise(ErrorOr(error, Error(<<"Not a number">>)))
     ELSE Return(ToNumber(value.value))
JsonLDReader_numberOrElse(this, defaultValue) ==
  OrElse(JsonLDReader_numberOrThrow(this, NoError), defaultValue)
\* booleanOrThrow without the '0' / '1' string tokens
JsonLDReader_booleanOrThrow_NoDigits(this, error) ==
  LET value == getValue(this)
  IN IF value.kind = "Throw" THEN value
     ELSE IF TypeOf(value.value) = "boolean" THEN Return(value.value)
     ELSE IF value.value \in {Str(<<"true">>), Str(<<"false">>)}
     THEN Return(Bool(value.value = Str(<<"true">>)))
     ELSE IF value.value \in {Num(0), Num(1)}
     THEN Return(Bool(value.value = Num(1)))
     ELSE Raise(ErrorOr(error, Error(<<"Not a boolean">>)))
JsonLDReader_booleanOrThrow(this, error) ==
  LET value == getValue(this)
  IN IF value.kind = "Throw" THEN value
     ELSE IF TypeOf(value.value) = "boolean" THEN Return(value.value)
     ELSE IF value.value \in {Str(<<"true">>), Str(<<"false">>), Str(<<"0">>), Str(<<"1">>)}
     THEN Return(Bool(value.value \in {Str(<<"true">>), Str(<<"1">>)}))
     ELSE IF value.value \in {Num(0), Num(1)}
     THEN Return(Bool(value.value = Num(1)))
     ELSE Raise(ErrorOr(error, Error(<<"Not a boolean">>)))
JsonLDReader_booleanOrElse(this, defaultValue) ==
  OrElse(JsonLDReader_booleanOrThrow(this, NoError), defaultValue)

\* ----------------------------------------------------------- Nothing methods
\* Nothing without its own read: the inherited JsonLDReader.read
Nothing_read_Inherited(this, m) == read(this.value, m)
Nothing_read(this, m) == this
Nothing_get(this) == Return(Null)
Nothing_getOrThrow(this, error) == Raise(ErrorOr(error, this.error))
\* Nothing without its own getOrElse: the inherited JsonLDReader.getOrElse
Nothing_getOrElse_Inherited(this, defaultValue) == getValue(this)
Nothing_getOrElse(this, defaultValue) == Return(defaultValue)
\* Nothing.stringOrThrow raising the coercion error of the base class
Nothing_stringOrThrow_Coercion(this, error) ==
  Raise(ErrorOr(error, Error(<<"Not a string">>)))
Nothing_stringOrThrow(this, error) == Raise(ErrorOr(error, this.error))
Nothing_stringOrElse(this, defaultValue) == Return(defaultValue)
Nothing_numberOrThrow(this, error) == Raise(ErrorOr(error, this.error))
Nothing_numberOrElse(this, defaultValue) == Return(defaultValue)
Nothing_booleanOrThrow(this, error) == Raise(ErrorOr(error, this.error))
Nothing_booleanOrElse(this, defaultValue) == Return(defaultValue)

\* ------------------------------------------------- dispatch on the variant
IsNothing(this) == this.kind = "Nothing"
\* strict(): JsonLDReader.of(this.value); Nothing does not override it
JsonLDReader_strict(this) == of(this.value)
Read(this, m) ==
  IF IsNothing(this) THEN Nothing_read(this, m) ELSE JsonLDReader_read(this, m)
Get(this) ==
  IF IsNothing(this) THEN Nothing_get(this) ELSE JsonLDReader_get(this)
\* the eight calls that take one argument, by name
Call(this, name, x) ==
  CASE name = "getOrThrow" ->
         IF IsNothing(this) THEN Nothing_getOrThrow(this, x) ELSE JsonLDReader_getOrThrow(this, x)
    [] name = "stringOrThrow" ->
         IF IsNothing(this) THEN Nothing_stringOrThrow(this, x) ELSE JsonLDReader_stringOrThrow(this, x)
    [] name = "numberOrThrow" ->
         IF IsNothing(this) THEN Nothing_numberOrThrow(this, x) ELSE JsonLDReader_numberOrThrow(this, x)
    [] name = "booleanOrThrow" ->
         IF IsNothing(this) THEN Nothing_booleanOrThrow(this, x) ELSE JsonLDReader_booleanOrThrow(this, x)
    [] name = "getOrElse" ->
         IF IsNothing(this) THEN Nothing_getOrElse(this, x) ELSE JsonLDReader_getOrElse(this, x)
    [] name = "stringOrElse" ->
         IF IsNothing(this) THEN Nothing_stringOrElse(this, x) ELSE JsonLDReader_stringOrElse(this, x)
    [] name = "numberOrElse" ->
         IF IsNothing(this) THEN Nothing_numberOrElse(this, x) ELSE JsonLDReader_numberOrElse(this, x)
    [] name = "booleanOrElse" ->
         IF IsNothing(this) THEN Nothing_booleanOrElse(this, x) ELSE JsonLDReader_booleanOrElse(this, x)

\* ------------------------------------------------------------- the inputs
NS == <<"http:", "/", "/", "a.org", "/", "ns">>
EX == <<"http:", "/", "/", "b.org">>
Hash(ns, local) == ns \o <<"#", local>>
Slash(ns, local) == ns \o <<"/", local>>
IRI1 == Str(Slash(EX, "juunini"))
IRI2 == Str(Slash(EX, "other"))
Literal(x) == Obj(<<Entry(<<"@value">>, x)>>)
Ref(x) == Obj(<<Entry(<<"@id">>, x)>>)

Canonical == {<<"@id">>, <<"@type">>, <<"@value">>}
Keys ==
  Canonical \cup
  {Hash(NS, "id"), Hash(NS, "type"), Hash(NS, "value"), Hash(NS, "name"),
   Slash(EX, "id"), Slash(EX, "type"), Slash(EX, "name"), Slash(EX, "@type"),
   Hash(Hash(NS, "x"), "name")}
IdKeys == {k \in Keys : k[Len(k)] \in {"id", "@id"}}
TypeKeys == {k \in Keys : k[Len(k)] \in {"type", "@type"}}
ValueKeys == {k \in Keys : k[Len(k)] \in {"value", "@value"}}
NameKeys == {k \in Keys : k[Len(k)] = "name"}

\* the values an entry may hold, by the kind of its key
TypeVals ==
  {Arr(<<Str(Hash(NS, "Person"))>>), Str(Hash(NS, "Person")),
   Str(Slash(EX, "Person")), Str(<<"Person">>),
   Str(Hash(Hash(NS, "a"), "b")), Arr(<<Literal(Str(<<"Person">>))>>),
   Num(1), Arr(<<>>), Null, Obj(<<>>)}
IdVals == {IRI1, Null}
ValueVals ==
  {Str(<<"true">>), Str(<<"false">>), Str(<<"1">>), Str(<<"0">>), Str(<<"yes">>),
   Bool(TRUE), Bool(FALSE), Null} \cup {Num(i) : i \in 0..MaxNum}
NameVals ==
  {Arr(<<Literal(Str(<<"true">>))>>), Arr(<<Literal(Num(1))>>), Arr(<<Ref(IRI1)>>),
   Arr(<<Literal(Str(<<"yes">>)), Literal(Str(<<"no">>))>>),
   Arr(<<Obj(<<Entry(Hash(NS, "name"), Arr(<<Literal(Str(<<"GitHub">>))>>))>>)>>),
   Str(<<"raw">>), Null}
Vals(k) ==
  IF k \in IdKeys THEN IdVals
  ELSE IF k \in TypeKeys THEN TypeVals
  ELSE IF k \in ValueKeys THEN ValueVals
  ELSE NameVals
\* the value of a second entry: one per kind, different from every first value
Other(k) ==
  IF k \in IdKeys THEN IRI2
  ELSE IF k \in TypeKeys THEN Str(Slash(EX, "Other"))
  ELSE IF k \in ValueKeys THEN Str(<<"other">>)
  ELSE Arr(<<Literal(Str(<<"other">>))>>)
SameKind(k1, k2) ==
  \E K \in {IdKeys, TypeKeys, ValueKeys, NameKeys} : k1 \in K /\ k2 \in K
\* node-objects of one entry
Nodes1 == UNION {{Obj(<<Entry(k, v)>>) : v \in Vals(k)} : k \in Keys}
\* the keys that compete with k1 for a short key (same kind) or for the
\* unwrap rule (both canonical)
Rivals(k1) ==
  {k \in Keys : k # k1 /\ (SameKind(k1, k) \/ {k1, k} \subseteq Canonical)}
\* node-objects of two entries with rival keys
Nodes2 ==
  UNION {UNION {{Obj(<<Entry(k1, v), Entry(k2, Other(k2))>>) : v \in Vals(k1)} :
                k2 \in Rivals(k1)} : k1 \in Keys}
Nodes == Nodes1 \cup Nodes2
\* the elements of the sequences that are not one-node sequences
Elems == {Null, Str(<<"true">>), Ref(IRI1), Literal(Num(1))}
RECURSIVE SeqsUpTo(_, _)
SeqsUpTo(S, n) ==
  IF n = 0 THEN {<<>>}
  ELSE LET shorter == SeqsUpTo(S, n - 1)
       IN shorter \cup {Append(q, e) : q \in {x \in shorter : Len(x) = n - 1}, e \in S}
\* the expanded documents: a sequence holding one node-object, or any
\* sequence of at most MaxLen elements
Roots == {Arr(<<node>>) : node \in Nodes} \cup {Arr(q) : q \in SeqsUpTo(Elems, MaxLen)}

ReadKeys ==
  {<<"id">>, <<"@id">>, <<"type">>, <<"@type">>, <<"value">>, <<"@value">>, <<"name">>}
Selectors == {Key(k) : k \in ReadKeys} \cup {Index(i) : i \in (-1)..MaxLen}
Errors == {NoError, Error(<<"test">>)}
Defaults(name) ==
  CASE name = "getOrElse" -> {Str(<<"defaultValue">>), Null}
    [] name = "stringOrElse" -> {Str(<<"defaultValue">>), Str(<<>>)}
    [] name = "numberOrElse" -> {Num(0), Num(-1)}
    [] name = "booleanOrElse" -> {Bool(TRUE), Bool(FALSE)}

\* --------------------------------------------------------- the state machine
VARIABLES
  root,    \* the expanded document handed to JsonLDReader.of
  reader,  \* the Reader the caller holds
  reader2,   \* the Reader a second walk of the same document holds
  prev,    \* the Reader the last call was made on
  op,      \* the last call
  arg,     \* its argument
  result   \* what it returned or raised (a read returns the new Reader)
vars == <<root, reader, reader2, prev, op, arg, result>>

ReturnedReader == [kind |-> "Reader", value |-> Undef, error |-> NoError]

Init ==
  /\ root \in Roots
  /\ reader = of(root)
  /\ reader2 = of(root)
  /\ prev = of(root)
  /\ op = "of"
  /\ arg = NoArg
  /\ result = ReturnedReader

\* reader = reader.read(keyOrIndex); an exception leaves the caller with the
\* Reader it had
ReadStep ==
  \E m \in Selectors :
    LET r == Read(reader, m)
    IN /\ op' = "read" /\ arg' = m /\ prev' = reader
       /\ reader' = IF r.kind = "Throw" THEN reader ELSE r
       /\ result' = IF r.kind = "Throw" THEN Raise(r.error) ELSE ReturnedReader
       /\ UNCHANGED <<root, reader2>>

\* a terminal call that stores its failure on the Reader
Terminal_StoresFailure(name, a, r) ==
  /\ op' = name /\ arg' = a /\ prev' = reader /\ result' = r
  /\ reader' = IF r.kind = "Throw" THEN Nothing(r.error) ELSE reader
  /\ UNCHANGED <<root, reader2>>
Terminal(name, a, r) ==
  /\ op' = name /\ arg' = a /\ prev' = reader /\ result' = r
  /\ UNCHANGED <<root, reader, reader2>>

GetStep == Terminal("get", NoArg, Get(reader))
GetOrThrowStep ==
  \E e \in Errors : Terminal("getOrThrow", ErrorArg(e), Call(reader, "getOrThrow", e))
StringOrThrowStep ==
  \E e \in Errors : Terminal("stringOrThrow", ErrorArg(e), Call(reader, "stringOrThrow", e))
NumberOrThrowStep ==
  \E e \in Errors : Terminal("numberOrThrow", ErrorArg(e), Call(reader, "numberOrThrow", e))
BooleanOrThrowStep ==
  \E e \in Errors : Terminal("booleanOrThrow", ErrorArg(e), Call(reader, "booleanOrThrow", e))
GetOrElseStep ==
  \E d \in Defaults("getOrElse") :
    Terminal("getOrElse", DefaultArg(d), Call(reader, "getOrElse", d))
StringOrElseStep ==
  \E d \in Defaults("stringOrElse") :
    Terminal("stringOrElse", DefaultArg(d), Call(reader, "stringOrElse", d))
NumberOrElseStep ==
  \E d \in Defaults("numberOrElse") :
    Terminal("numberOrElse", DefaultArg(d), Call(reader, "numberOrElse", d))
BooleanOrElseStep ==
  \E d \in Defaults("booleanOrElse") :
    Terminal("booleanOrElse", DefaultArg(d), Call(reader, "booleanOrElse", d))
\* reader = reader.strict()
StrictStep ==
  /\ op' = "strict" /\ arg' = NoArg /\ prev' = reader
  /\ reader' = JsonLDReader_strict(reader)
  /\ result' = ReturnedReader
  /\ UNCHANGED <<root, reader2>>

Next ==
  \/ ReadStep
  \/ StrictStep
  \/ GetStep
  \/ GetOrThrowStep
  \/ StringOrThrowStep
  \/ NumberOrThrowStep
  \/ BooleanOrThrowStep
  \/ GetOrElseStep
  \/ StringOrElseStep
  \/ NumberOrElseStep
  \/ BooleanOrElseStep

Spec == Init /\ [][Next]_vars

\* ------------------------------------------- two walks of the same document
\* the documents the two walks share: one node-object with an ordinary key
WalkVals ==
  {Arr(<<Literal(Str(<<"yes">>)), Literal(Str(<<"no">>))>>),
   Arr(<<Obj(<<Entry(Hash(NS, "name"), Arr(<<Literal(Str(<<"GitHub">>))>>))>>)>>)}
WalkRoots == {Arr(<<Obj(<<Entry(Hash(NS, "name"), v)>>)>>) : v \in WalkVals}
WalkInit == Init /\ root \in WalkRoots
\* reader2 = reader2.read(keyOrIndex)
OtherReadStep ==
  \E m \in Selectors :
    LET r == Read(reader2, m)
    IN /\ op' = "read" /\ arg' = m /\ prev' = reader2
       /\ reader2' = IF r.kind = "Throw" THEN reader2 ELSE r
       /\ result' = IF r.kind = "Throw" THEN Raise(r.error) ELSE ReturnedReader
       /\ UNCHANGED <<root, reader>>
OtherStrictStep ==
  /\ op' = "strict" /\ arg' = NoArg /\ prev' = reader2
  /\ reader2' = JsonLDReader_strict(reader2)
  /\ result' = ReturnedReader
  /\ UNCHANGED <<root, reader>>
OtherTerminal(name, a, r) ==
  /\ op' = name /\ arg' = a /\ prev' = reader2 /\ result' = r
  /\ UNCHANGED <<root, reader, reader2>>
OtherGetStep == OtherTerminal("get", NoArg, Get(reader2))
OtherOrThrowStep ==
  \E name \in {"getOrThrow", "stringOrThrow", "numberOrThrow", "booleanOrThrow"} :
    \E e \in Errors : OtherTerminal(name, ErrorArg(e), Call(reader2, name, e))
OtherOrElseStep ==
  \E name \in {"getOrElse", "stringOrElse", "numberOrElse", "booleanOrElse"} :
    \E d \in Defaults(name) : OtherTerminal(name, DefaultArg(d), Call(reader2, name, d))
WalkNext ==
  \/ Next
  \/ OtherReadStep
  \/ OtherStrictStep
  \/ OtherGetStep
  \/ OtherOrThrowStep
  \/ OtherOrElseStep
SpecWalks == WalkInit /\ [][WalkNext]_vars

\* ------------------------------------------------------------- properties
OrThrowCalls == {"getOrThrow", "stringOrThrow", "numberOrThrow", "booleanOrThrow"}
OrElseCalls == {"getOrElse", "stringOrElse", "numberOrElse", "booleanOrElse"}
IsJust(this) == this.kind = "Just"
\* the diagnostics a failed read step stores
NavigationDiagnostics ==
  {Error(<<"Not an object">>), Error(<<"Not an array">>),
   Error(<<"key or index is required">>)}
  \cup {Error(<<"Not found key: ">> \o k) : k \in ReadKeys}
  \cup {Error(<<"Not found index: ">> \o IntStr(i)) : i \in (-1)..MaxLen}

\* C1: a read on an Absent Reader, whatever its argument, returns an Absent
\* Reader with the same diagnostic (and the very same Reader), without raising.
C1_AbsorbingRead ==
  (op = "read" /\ IsNothing(prev)) =>
    /\ result = ReturnedReader
    /\ IsNothing(reader)
    /\ reader.error = prev.error
    /\ reader = prev
\* an Absent Reader produced by a failed key read has been read again by index
C1_Witness ==
  /\ op = "read" /\ arg = Index(0)
  /\ IsNothing(prev) /\ prev.error = Error(<<"Not found key: ", "name">>)
  /\ reader = prev

\* C2: a read step never raises: it returns a Present or an Absent Reader.
C2_ReadNeverThrows ==
  op = "read" => (result.kind # "Throw" /\ reader.kind \in {"Just", "Nothing"})

\* C3: on an Absent Reader getOrElse(d), stringOrElse(d), numberOrElse(d) and
\* booleanOrElse(d) return exactly d and do not raise.
C3_OrElseOnAbsent ==
  (op \in OrElseCalls /\ IsNothing(prev)) => result = Return(arg.value)
C3_Witness ==
  /\ op = "getOrElse" /\ IsNothing(prev)
  /\ arg = DefaultArg(Str(<<"defaultValue">>))
  /\ result = Return(Str(<<"defaultValue">>))

\* C4: on an Absent Reader each *OrThrow call raises the supplied error when
\* one is supplied, and otherwise the diagnostic the failed read step stored,
\* which is a navigation diagnostic and not a coercion error.
C4_OrThrowOnAbsent ==
  (op \in OrThrowCalls /\ IsNothing(prev)) =>
    /\ prev.error \in NavigationDiagnostics
    /\ result = Raise(IF arg.error # NoError THEN arg.error ELSE prev.error)
C4_Witness ==
  /\ op = "stringOrThrow" /\ IsNothing(prev) /\ arg = ErrorArg(NoError)
  /\ result = Raise(Error(<<"Not found key: ", "name">>))

\* C5: get() never raises; it returns null on an Absent Reader and a value on
\* a Present one.
C5_GetNeverRaises ==
  op = "get" =>
    /\ result.kind = "Return"
    /\ IsNothing(prev) => result.value = Null

\* the fragment is a node-object, or a sequence holding one node-object
HasNode(v) ==
  \/ v.t = "object"
  \/ IsArray(v) /\ Len(v.a) = 1 /\ v.a[1].t = "object"
NodeOf(v) == IF IsArray(v) THEN v.a[1] ELSE v
\* the fully-qualified key k ends in sep followed by the short key
EndsIn(k, sep, key) ==
  /\ Len(k) > Len(key)
  /\ SubSeq(k, Len(k) - Len(key), Len(k)) = <<sep>> \o key
\* the entries of node whose key ends in '#key' or '/key'
Matching(node, key) ==
  {i \in 1..Len(node.o) : EndsIn(node.o[i].k, "#", key) \/ EndsIn(node.o[i].k, "/", key)}
Reserved == {<<"id">>, <<"@id">>, <<"type">>, <<"@type">>, <<"value">>, <<"@value">>}
CanonicalOf(key) ==
  CASE key \in {<<"id">>, <<"@id">>} -> <<"@id">>
    [] key \in {<<"type">>, <<"@type">>} -> <<"@type">>
    [] key \in {<<"value">>, <<"@value">>} -> <<"@value">>
\* the other spelling of a reserved key
AliasOf(key) ==
  CASE key = <<"id">> -> <<"@id">>
    [] key = <<"@id">> -> <<"id">>
    [] key = <<"type">> -> <<"@type">>
    [] key = <<"@type">> -> <<"type">>
    [] key = <<"value">> -> <<"@value">>
    [] key = <<"@value">> -> <<"value">>

\* C6: when the node-object of a Present Reader has a key ending in '#k' or
\* '/k', read(k) is Present and its get() is the unwrapped value stored under
\* such a key (stated for the short keys that are not reserved).
C6_SuffixKeyRead ==
  (/\ op = "read" /\ arg.sel = "key" /\ arg.key \notin Reserved
   /\ IsJust(prev) /\ HasNode(prev.value)
   /\ Matching(NodeOf(prev.value), arg.key) # {}) =>
    /\ result = ReturnedReader
    /\ IsJust(reader)
    /\ \E i \in Matching(NodeOf(prev.value), arg.key) :
         Get(reader) = Get(of(NodeOf(prev.value).o[i].v))

\* C7: on a node-object that has the canonical '@id' ('@type', '@value')
\* field, a read by one spelling of the reserved key has the same outcome, and
\* the same get(), as a read by the other spelling.
C7_ReservedAliasing ==
  (/\ op = "read" /\ arg.sel = "key" /\ arg.key \in Reserved
   /\ IsJust(prev) /\ HasNode(prev.value)
   /\ Prop(NodeOf(prev.value), CanonicalOf(arg.key)) # Undef) =>
    LET other == Read(prev, Key(AliasOf(arg.key)))
    IN IF other.kind = "Throw" THEN result = Raise(other.error)
       ELSE /\ result = ReturnedReader
            /\ reader = other
            /\ Get(reader) = Get(other)
\* read('id') on a node with '@id' gave the identifier
C7_Witness ==
  /\ op = "read" /\ arg = Key(<<"id">>)
  /\ IsJust(prev) /\ HasNode(prev.value)
  /\ Prop(NodeOf(prev.value), <<"@id">>) = IRI1
  /\ Get(reader) = Return(IRI1)

\* C8: a successful read with the type key, in either spelling and by
\* whichever path, gives the type-extraction of the raw value of an entry of
\* the node-object (stated for node-objects whose values all have a
\* type-extraction: sequences, literal wrappers and strings).
C8_TypeCompaction ==
  (/\ op = "read" /\ arg.sel = "key" /\ arg.key \in {<<"type">>, <<"@type">>}
   /\ IsJust(prev) /\ HasNode(prev.value)
   /\ \A i \in 1..Len(NodeOf(prev.value).o) :
        extractType(NodeOf(prev.value).o[i].v).kind = "Return"
   /\ result = ReturnedReader /\ IsJust(reader)) =>
    \E i \in 1..Len(NodeOf(prev.value).o) :
      LET extracted == extractType(NodeOf(prev.value).o[i].v)
      IN extracted.kind = "Return" /\ reader = of(extracted.value)

\* the table of the boolean coercion
TrueValues == {Str(<<"true">>), Str(<<"1">>), Num(1), Bool(TRUE)}
FalseValues == {Str(<<"false">>), Str(<<"0">>), Num(0), Bool(FALSE)}
C10_MultiElementSequence ==
  (/\ op = "read" /\ arg.sel = "key"
   /\ IsJust(prev) /\ IsArray(prev.value) /\ Len(prev.value.a) > 1) =>
    /\ result = ReturnedReader
    /\ reader = Nothing(Error(<<"Not an object">>))

\* C11: reading a string key on a sequence of one element has the outcome of
\* reading it on the element itself, and read(0) on that sequence gives the
\* element, so that R.read(0).read(k) and R.read(k) agree.
C11_SingletonTransparency ==
  (/\ op = "read" /\ arg.sel = "key"
   /\ IsJust(prev) /\ IsArray(prev.value) /\ Len(prev.value.a) = 1) =>
    LET element == of(prev.value.a[1])
        direct == Read(element, arg)
    IN /\ Read(prev, Index(0)) = element
       /\ IF direct.kind = "Throw"
          THEN result = Raise(direct.error) /\ reader = prev
          ELSE result = ReturnedReader /\ reader = direct
\* read('name') on a one-node sequence reached the value under '...#name'
C11_Witness ==
  /\ op = "read" /\ arg = Key(<<"name">>)
  /\ IsJust(prev) /\ IsArray(prev.value) /\ Len(prev.value.a) = 1
  /\ reader = of(Arr(<<Literal(Str(<<"true">>))>>))

\* C12: on a Present Reader read(i) is Absent 'Not an array' exactly when the
\* fragment is not a sequence, Absent 'Not found index: <i>' exactly when it
\* is a sequence without an element at i, and otherwise Present with the
\* element at i.
C12_IndexNavigation ==
  (op = "read" /\ arg.sel = "index" /\ IsJust(prev)) =>
    /\ result = ReturnedReader
    /\ reader =
         IF ~IsArray(prev.value) THEN Nothing(Error(<<"Not an array">>))
         ELSE IF arg.index < 0 \/ arg.index >= Len(prev.value.a)
         THEN Nothing(Error(<<"Not found index: ">> \o IntStr(arg.index)))
         ELSE of(prev.value.a[arg.index + 1])
\* read(-1) on a sequence is Absent with 'Not found index: -1'
C12_Witness ==
  /\ op = "read" /\ arg = Index(-1)
  /\ IsJust(prev) /\ IsArray(prev.value)
  /\ reader = Nothing(Error(<<"Not found index: ", "-", "1">>))

\* the field is present: the value has it, and not as null
Has(e, key) == e.t = "object" /\ ~IsNullish(Prop(e, key))
\* the object-unwrap rule: '@value' if present, else '@id' if present, else
\* the element itself
ObjectUnwrap(e) ==
  IF Has(e, <<"@value">>) THEN Prop(e, <<"@value">>)
  ELSE IF Has(e, <<"@id">>) THEN Prop(e, <<"@id">>)
  ELSE e
\* the unwrap rule
Unwrap(f) ==
  IF f.t \in {"string", "number", "boolean"} THEN f
  ELSE IF IsArray(f) /\ Len(f.a) = 1 THEN ObjectUnwrap(f.a[1])
  ELSE ObjectUnwrap(f)

\* C13: on a Present Reader get(), getOrThrow() and getOrElse(d) all return
\* the value of the unwrap rule, never d and never an exception.
C13_UnwrapRule ==
  (op \in {"get", "getOrThrow", "getOrElse"} /\ IsJust(prev)) =>
    result = Return(Unwrap(prev.value))

\* the string form of a primitive
StringForm(u) ==
  CASE u.t = "string" -> u.s
    [] u.t = "number" -> IntStr(u.n)
    [] u.t = "boolean" -> IF u.b THEN <<"true">> ELSE <<"false">>
NumberOutcome(x) ==
  IF x # NaN THEN Return(x)
  ELSE IF op = "numberOrElse" THEN Return(arg.value)
  ELSE Raise(IF arg.error # NoError THEN arg.error ELSE Error(<<"Not a number">>))
\* the numeric parse of the string form of u (an object or a sequence
\* converts through its string form already)
ParseOfStringForm(u) ==
  CASE u.t = "number" -> u
    [] u.t = "string" -> ParseNumber(u.s)
    [] u.t = "boolean" -> ParseNumber(StringForm(u))
    [] u.t = "null" -> ParseNumber(<<"null">>)
    [] OTHER -> ToNumber(u)
\* the numeric coercion of u itself: true is 1, false and null are 0, a
\* string is parsed
Coercion(u) ==
  CASE u.t = "number" -> u
    [] u.t = "string" -> ParseNumber(u.s)
    [] u.t = "boolean" -> IF u.b THEN Num(1) ELSE Num(0)
    [] u.t = "null" -> Num(0)
    [] OTHER -> ToNumber(u)
Derived(r, name, a) ==
  IF name = "read" THEN Read(r, a) ELSE JsonLDReader_strict(r)
\* the outcome of one call made on Reader r alone
Outcome(r, name, a) ==
  IF name = "read"
  THEN LET x == Read(r, a)
       IN IF x.kind = "Throw" THEN Raise(x.error) ELSE ReturnedReader
  ELSE IF name = "strict" THEN ReturnedReader
  ELSE IF name = "get" THEN Get(r)
  ELSE IF name \in OrThrowCalls THEN Call(r, name, a.error)
  ELSE Call(r, name, a.value)

\* C16: two walks of the same document do not interfere. Every call leaves
\* the document alone and returns what it returns on its own Reader alone;
\* the Reader a walk holds changes only by that walk's own read or strict,
\* to the Reader that call returns, so no get or typed extraction, failed
\* or not, is stored on a Reader; and get() called twice in a row on the
\* same Reader gives the same result.
C16_NoInterference ==
  [][/\ root' = root
     /\ result' = Outcome(prev', op', arg')
     /\ reader' # reader =>
          /\ op' \in {"read", "strict"} /\ prev' = reader /\ reader2' = reader2
          /\ reader' = Derived(reader, op', arg')
     /\ reader2' # reader2 =>
          /\ op' \in {"read", "strict"} /\ prev' = reader2 /\ reader' = reader
          /\ reader2' = Derived(reader2, op', arg')
     /\ (op = "get" /\ op' = "get" /\ prev' = prev) => result' = result]_vars
\* a typed extraction has just failed on the second walk's Present Reader
\* while the first walk holds a different Present Reader below the root
\* C17: a read made on a Present Reader whose value is defined returns either
\* a Present Reader whose value is not undefined or an Absent Reader with no
\* value and one diagnostic.
C17_ReaderVariants ==
  (op = "read" /\ result = ReturnedReader /\ IsJust(prev) /\ prev.value # Undef) =>
    /\ IsJust(reader) => reader.value # Undef
    /\ IsNothing(reader) => (reader.value = Undef /\ reader.error # NoError)

\* the segment of k after its last '#' is key
LastHashSegmentIs(k, key) ==
  LET sp == Split(k, "#") IN Len(sp) >= 2 /\ sp[Len(sp)] = key
\* the first entry of node whose key has key after its last '#', or if there
\* is none the first whose key has key after its last '/'; 0 if there is none
Resolved(node, key) ==
  LET h == FirstOf({i \in 1..Len(node.o) : LastHashSegmentIs(node.o[i].k, key)})
  IN IF h # 0 THEN h
     ELSE FirstOf({i \in 1..Len(node.o) : LastSlashSegmentIs(node.o[i].k, key)})

\* C18: read(k) with a non-reserved short key k on a node-object is Present
\* with the value of the first key whose segment after the last '#' is k,
\* or if there is none of the first key whose segment after the last '/' is
\* k, and is Absent with 'Not found key: k' if no key matches either rule.
C18_GenericResolution ==
  (/\ op = "read" /\ arg.sel = "key" /\ arg.key \notin Reserved
   /\ IsJust(prev) /\ HasNode(prev.value)) =>
    LET node == NodeOf(prev.value)
        i == Resolved(node, arg.key)
    IN /\ result = ReturnedReader
       /\ reader = IF i = 0 THEN Nothing(Error(<<"Not found key: ">> \o arg.key))
                   ELSE of(node.o[i].v)

\* the reserved token of a reserved key, without its '@'
ShortOf(key) ==
  CASE key \in {<<"id">>, <<"@id">>} -> <<"id">>
    [] key \in {<<"type">>, <<"@type">>} -> <<"type">>
    [] key \in {<<"value">>, <<"@value">>} -> <<"value">>
\* the outcome of a read by a reserved key that uses the value v: the Reader
\* of v, or for the type key of the compacted v
Used(key, v) ==
  IF ShortOf(key) = <<"type">>
  THEN LET r == extractType(v) IN IF r.kind = "Throw" THEN Throw(r.error) ELSE of(r.value)
  ELSE of(v)

\* C19: a read by a reserved key, in either spelling, on a node-object uses
\* the value under the canonical '@' key when the node has it; otherwise the
\* value of the first key whose segment after the last '#' is the reserved
\* token; otherwise it is Present or Absent as the read by the other
\* spelling is, with the same value (the wording of the diagnostic apart).
C19_ReservedResolution ==
  (/\ op = "read" /\ arg.sel = "key" /\ arg.key \in Reserved
   /\ IsJust(prev) /\ HasNode(prev.value)) =>
    LET node == NodeOf(prev.value)
        h == FirstOf({i \in 1..Len(node.o) :
                       LastHashSegmentIs(node.o[i].k, ShortOf(arg.key))})
        fell == Prop(node, CanonicalOf(arg.key)) = Undef /\ h = 0
        x == IF Prop(node, CanonicalOf(arg.key)) # Undef
             THEN Used(arg.key, Prop(node, CanonicalOf(arg.key)))
             ELSE IF h # 0 THEN Used(arg.key, node.o[h].v)
             ELSE Read(prev, Key(AliasOf(arg.key)))
    IN IF x.kind = "Throw" THEN result.kind = "Throw" /\ (fell \/ result = Raise(x.error))
       ELSE /\ result = ReturnedReader
            /\ reader.kind = x.kind /\ reader.value = x.value
            /\ fell \/ reader = x

\* C20: strict() on an Absent Reader returns an Absent Reader with the same
\* diagnostic, so Absent is absorbing under strict as it is under read.
C20_AbsentAbsorbsStrict ==
  (op = "strict" /\ IsNothing(prev)) =>
    (IsNothing(reader) /\ reader.error = prev.error)

C16_Witness ==
  /\ op \in OrThrowCalls /\ result.kind = "Throw"
  /\ prev = reader2 /\ IsJust(reader2)
  /\ IsJust(reader) /\ reader # reader2 /\ reader # of(root)
====
